---- MODULE Spec2Model ----
(***************************************************************************)
(* Model of the appointment ledger of backend/api/calendly_integration.py  *)
(* (CalendlyIntegration): availability computation, booking validation,    *)
(* cancellation, and the unlocked check-then-append of book_appointment.   *)
(*                                                                         *)
(* Dates are the strings the code handles.  A date string is modelled as   *)
(* [day, padded]: day is the day of November 2026 it denotes (2026-11-01   *)
(* is a Sunday) and padded tells whether it is spelled "2026-11-02" or     *)
(* "2026-11-2".  datetime.strptime("%Y-%m-%d") accepts both spellings,     *)
(* while the code compares date strings textually.                         *)
(* Times are the strings "HH:MM", modelled as <<HH, MM>>; the request      *)
(* pattern \d{2}:\d{2} admits MM above 59.                                 *)
(*                                                                         *)
(* The second part models backend/agent/scheduling_agent.py                *)
(* (SchedulingAgent): the per-session message history with its limit of    *)
(* 20, and one chat turn with its two model calls and its tool loop.       *)
(*                                                                         *)
(* The third part models the tool wrappers of backend/tools/ with the      *)
(* patient phone validation of backend/models/schemas.py.                  *)
(***************************************************************************)
EXTENDS Integers, Sequences, FiniteSets, TLC

VARIABLES
    ledger,     \* self.bookings["appointments"]
    today,      \* dt_date.today(), as a day of November 2026
    resp,       \* what the call just handled returned or raised, until delivered
    pc,         \* per thread: position inside book_appointment
    req,        \* per thread: the request being booked
    checkedAt,  \* per ledger record: ledger length when its overlap check ran
    trail,      \* the calls since the last booking: "booked" right after a
                \* successful book_appointment, "booked_cancelled" once
                \* cancel_booking was then called with the id it returned
                \* (in the agent: the session reset since the last chat turn)
    chatSessions, \* SchedulingAgent.sessions: session id -> stored messages
    appended    \* per session id: every message _add_to_session was given
                \* since the session was last reset

vars == <<ledger, today, resp, pc, req, checkedAt, trail, chatSessions, appended>>

\* ---------------------------------------------------------------- bounds
MaxAppts == 2        \* records the ledger may hold
MaxToday == 3        \* last value of today
NumIds == 2          \* distinct values the 4 random digits may take
NumThreads == 2      \* threads running book_appointment at once

Days == 1..4
Threads == 1..NumThreads
BookingIds == 1..NumIds

\* ------------------------------------------------------- schedule (data)
DayNames ==
    <<"sunday", "monday", "tuesday", "wednesday", "thursday", "friday", "saturday">>

AppointmentType == {"consultation", "followup", "physical", "specialist"}

DateStr(d, p) == [day |-> d, padded |-> p]

schedule ==
    [ working_hours |->
        [ n \in {"sunday", "monday", "tuesday", "wednesday", "thursday", "friday", "saturday"} |->
            IF n = "sunday" THEN <<>>
            ELSE IF n = "saturday"
                 THEN << [start |-> <<9, 0>>, end |-> <<14, 0>>] >>
                 ELSE << [start |-> <<9, 0>>, end |-> <<13, 0>>],
                         [start |-> <<14, 0>>, end |-> <<18, 0>>] >> ],
      holidays |-> { DateStr(3, TRUE) },
      blocked_dates |-> { [date |-> DateStr(4, TRUE)] },
      appointment_types |->
        [ t \in AppointmentType |->
            [ duration_minutes |->
                CASE t = "consultation" -> 30
                  [] t = "followup" -> 15
                  [] t = "physical" -> 45
                  [] t = "specialist" -> 60 ] ],
      buffer_minutes |-> 10 ]

\* ------------------------------------------------------------ inputs
\* every spelling of a date that strptime("%Y-%m-%d") parses
DateStrings == { DateStr(d, p) : d \in Days, p \in BOOLEAN }

\* BookingRequest.date must match ^\d{4}-\d{2}-\d{2}$
BookingDates == { ds \in DateStrings : ds.padded }

\* BookingRequest.start_time values tried; "08:75" matches ^\d{2}:\d{2}$
StartTimes == { <<8, 45>>, <<9, 0>>, <<8, 75>> }

\* BookingRequest.appointment_type values tried
BookedTypes == { "followup", "consultation" }

\* BookingRequest.patient of the requests tried: one patient per visit type
PatientInfo(appointment_type) ==
    IF appointment_type = "followup" THEN "Asha Rao" ELSE "Vikram Shah"

BookingRequest ==
    { [ date |-> d, start_time |-> s, appointment_type |-> t, patient |-> PatientInfo(t) ] :
        d \in BookingDates, s \in StartTimes, t \in BookedTypes }

NoRequest == [ date |-> DateStr(1, TRUE), start_time |-> <<0, 0>>,
               appointment_type |-> "followup", patient |-> "" ]

\* ------------------------------------------------------------ helpers
\* datetime.strptime(date_str, "%Y-%m-%d").date()
ParseDate(date_str) == date_str.day

GetDayName(date_str) == DayNames[((ParseDate(date_str) - 1) % 7) + 1]

IsWorkingDay(date_str) ==
    IF date_str \in schedule.holidays THEN FALSE
    ELSE IF \E block \in schedule.blocked_dates : block.date = date_str THEN FALSE
    ELSE Len(schedule.working_hours[GetDayName(date_str)]) > 0

GetWorkingSessions(date_str) ==
    IF ~IsWorkingDay(date_str) THEN <<>>
    ELSE schedule.working_hours[GetDayName(date_str)]

TimeToMinutes(time_str) == time_str[1] * 60 + time_str[2]

MinutesToTime(minutes) == << minutes \div 60, minutes % 60 >>

GetAppointmentDuration(appointment_type) ==
    schedule.appointment_types[appointment_type].duration_minutes

\* indices of the records _get_booked_slots returns
GetBookedSlots(appts, date_str) ==
    { i \in 1..Len(appts) : appts[i].date = date_str /\ appts[i].status = "confirmed" }

\* mutant: only an identical start counts as a conflict
IsSlotAvailable_SameStart(appts, date_str, start_time, end_time) ==
    \A i \in GetBookedSlots(appts, date_str) :
        TimeToMinutes(start_time) # TimeToMinutes(appts[i].start_time)

\* mutant: only a request lying wholly inside a booked slot counts as a conflict
IsSlotAvailable_Contained(appts, date_str, start_time, end_time) ==
    \A i \in GetBookedSlots(appts, date_str) :
        ~(/\ TimeToMinutes(appts[i].start_time) <= TimeToMinutes(start_time)
          /\ TimeToMinutes(end_time) <= TimeToMinutes(appts[i].end_time))

\* mutant: the overlap check dropped
IsSlotAvailable_NoCheck(appts, date_str, start_time, end_time) == TRUE

IsSlotAvailable(appts, date_str, start_time, end_time) ==
    LET start_mins == TimeToMinutes(start_time)
        end_mins == TimeToMinutes(end_time)
    IN  \A i \in GetBookedSlots(appts, date_str) :
            LET slot_start == TimeToMinutes(appts[i].start_time)
                slot_end == TimeToMinutes(appts[i].end_time)
            IN  end_mins <= slot_start \/ start_mins >= slot_end

\* ------------------------------------------------------- get_availability
TimeSlot(appts, date_str, current, duration) ==
    LET start_time == MinutesToTime(current)
        end_time == MinutesToTime(current + duration)
    IN  [ start_time |-> start_time,
          end_time |-> end_time,
          available |-> IsSlotAvailable(appts, date_str, start_time, end_time) ]

\* mutant: the loop advances by the duration alone, without the buffer
RECURSIVE SessionSlots_NoBuffer(_, _, _, _, _, _)
SessionSlots_NoBuffer(appts, date_str, current, session_end, duration, slot_duration) ==
    IF current + duration <= session_end
    THEN << TimeSlot(appts, date_str, current, duration) >>
         \o SessionSlots_NoBuffer(appts, date_str, current + duration, session_end,
                                  duration, slot_duration)
    ELSE << >>

\* the while loop of one session, from `current` on
RECURSIVE SessionSlots(_, _, _, _, _, _)
SessionSlots(appts, date_str, current, session_end, duration, slot_duration) ==
    IF current + duration <= session_end
    THEN << TimeSlot(appts, date_str, current, duration) >>
         \o SessionSlots(appts, date_str, current + slot_duration, session_end,
                         duration, slot_duration)
    ELSE << >>

\* the for loop over the sessions, from session k on
RECURSIVE AllSlots(_, _, _, _, _, _)
AllSlots(appts, date_str, sessions, k, duration, slot_duration) ==
    IF k > Len(sessions) THEN << >>
    ELSE SessionSlots(appts, date_str, TimeToMinutes(sessions[k].start),
                      TimeToMinutes(sessions[k].end), duration, slot_duration)
         \o AllSlots(appts, date_str, sessions, k + 1, duration, slot_duration)

AvailabilityResponse(date_str, appointment_type, slots) ==
    [ op |-> "get_availability",
      date |-> date_str,
      appointment_type |-> appointment_type,
      day_of_week |-> GetDayName(date_str),
      available_slots |-> slots,
      total_slots |-> Len(slots),
      available_count |-> Cardinality({ i \in 1..Len(slots) : slots[i].available }) ]

\* mutant: the past-date early return dropped
GetAvailabilityResult_NoPastCheck(appts, td, date_str, appointment_type) ==
    IF ~IsWorkingDay(date_str)
    THEN AvailabilityResponse(date_str, appointment_type, << >>)
    ELSE AvailabilityResponse(date_str, appointment_type,
             AllSlots(appts, date_str, GetWorkingSessions(date_str), 1,
                      GetAppointmentDuration(appointment_type),
                      GetAppointmentDuration(appointment_type) + schedule.buffer_minutes))

GetAvailabilityResult(appts, td, date_str, appointment_type) ==
    IF ParseDate(date_str) < td
    THEN AvailabilityResponse(date_str, appointment_type, << >>)
    ELSE IF ~IsWorkingDay(date_str)
    THEN AvailabilityResponse(date_str, appointment_type, << >>)
    ELSE LET duration == GetAppointmentDuration(appointment_type)
             buffer == schedule.buffer_minutes
             slot_duration == duration + buffer
         IN  AvailabilityResponse(date_str, appointment_type,
                 AllSlots(appts, date_str, GetWorkingSessions(date_str), 1,
                          duration, slot_duration))

Idle == resp.op = "none"

\* mutant: the query drops the cancelled records from the ledger
GetAvailability_Purging(date_str, appointment_type) ==
    /\ Idle
    /\ resp' = GetAvailabilityResult(ledger, today, date_str, appointment_type)
    /\ ledger' = SelectSeq(ledger, LAMBDA a : a.status = "confirmed")
    /\ UNCHANGED <<today, pc, req, checkedAt, trail, chatSessions, appended>>

GetAvailability(date_str, appointment_type) ==
    /\ Idle
    /\ resp' = GetAvailabilityResult(ledger, today, date_str, appointment_type)
    /\ UNCHANGED <<ledger, today, pc, req, checkedAt, trail, chatSessions, appended>>

\* ------------------------------------------------------- book_appointment
\* mutant: the end time takes the slot step (duration + buffer), not the duration
EndTime_WithBuffer(booking_request) ==
    MinutesToTime(TimeToMinutes(booking_request.start_time)
                  + GetAppointmentDuration(booking_request.appointment_type)
                  + schedule.buffer_minutes)

EndTime(booking_request) ==
    MinutesToTime(TimeToMinutes(booking_request.start_time)
                  + GetAppointmentDuration(booking_request.appointment_type))

InSession(date_str, start_time, end_time) ==
    LET sessions == GetWorkingSessions(date_str)
        start_mins == TimeToMinutes(start_time)
        end_mins == TimeToMinutes(end_time)
    IN  \E k \in 1..Len(sessions) :
            /\ TimeToMinutes(sessions[k].start) <= start_mins
            /\ end_mins <= TimeToMinutes(sessions[k].end)

\* mutant: the working-hours check runs before the overlap check
BookingError_HoursFirst(appts, td, booking_request) ==
    LET date_str == booking_request.date
        start_time == booking_request.start_time
        end_time == EndTime(booking_request)
    IN  IF ParseDate(date_str) < td THEN "PastDateError"
        ELSE IF ~IsWorkingDay(date_str) THEN "ClosedDayError"
        ELSE IF ~InSession(date_str, start_time, end_time) THEN "OutsideHoursError"
        ELSE IF ~IsSlotAvailable(appts, date_str, start_time, end_time)
             THEN "SlotUnavailableError"
        ELSE "none"

\* mutant: the working-day check runs before the past-date check
BookingError_ClosedFirst(appts, td, booking_request) ==
    LET date_str == booking_request.date
        start_time == booking_request.start_time
        end_time == EndTime(booking_request)
    IN  IF ~IsWorkingDay(date_str) THEN "ClosedDayError"
        ELSE IF ParseDate(date_str) < td THEN "PastDateError"
        ELSE IF ~IsSlotAvailable(appts, date_str, start_time, end_time)
             THEN "SlotUnavailableError"
        ELSE IF ~InSession(date_str, start_time, end_time) THEN "OutsideHoursError"
        ELSE "none"

\* the ValueError book_appointment raises, or "none" when every check passes
BookingError(appts, td, booking_request) ==
    LET date_str == booking_request.date
        start_time == booking_request.start_time
        end_time == EndTime(booking_request)
    IN  IF ParseDate(date_str) < td THEN "PastDateError"
        ELSE IF ~IsWorkingDay(date_str) THEN "ClosedDayError"
        ELSE IF ~IsSlotAvailable(appts, date_str, start_time, end_time)
             THEN "SlotUnavailableError"
        ELSE IF ~InSession(date_str, start_time, end_time) THEN "OutsideHoursError"
        ELSE "none"

Appointment(booking_request, booking_id) ==
    [ booking_id |-> booking_id,
      status |-> "confirmed",
      appointment_type |-> booking_request.appointment_type,
      date |-> booking_request.date,
      start_time |-> booking_request.start_time,
      end_time |-> EndTime(booking_request),
      patient |-> booking_request.patient,
      cancelled_at |-> FALSE ]   \* whether the record has a cancelled_at key

BookingResponse(booking_request, result, booking_id) ==
    [ op |-> "book_appointment", request |-> booking_request,
      result |-> result, booking_id |-> booking_id ]

\* one whole sequential call
BookAppointment(booking_request, booking_id) ==
    LET err == BookingError(ledger, today, booking_request)
    IN  /\ Idle
        /\ \A t \in Threads : pc[t] = "idle"
        /\ IF err # "none"
           THEN /\ resp' = BookingResponse(booking_request, err, 0)
                /\ trail' = "none"
                /\ UNCHANGED <<ledger, checkedAt>>
           ELSE /\ Len(ledger) < MaxAppts
                /\ ledger' = Append(ledger, Appointment(booking_request, booking_id))
                /\ checkedAt' = Append(checkedAt, Len(ledger))
                /\ resp' = BookingResponse(booking_request, "confirmed", booking_id)
                /\ trail' = "booked"
        /\ UNCHANGED <<today, pc, req, chatSessions, appended>>

\* --------------------------------------------------------- cancel_booking
\* mutant: the last record with that id is the one found
FirstWithId_Last(appts, booking_id) ==
    IF \E i \in 1..Len(appts) : appts[i].booking_id = booking_id
    THEN CHOOSE i \in 1..Len(appts) :
            /\ appts[i].booking_id = booking_id
            /\ \A j \in (i + 1)..Len(appts) : appts[j].booking_id # booking_id
    ELSE 0

\* index of the first record with that id, 0 when there is none
FirstWithId(appts, booking_id) ==
    IF \E i \in 1..Len(appts) : appts[i].booking_id = booking_id
    THEN CHOOSE i \in 1..Len(appts) :
            /\ appts[i].booking_id = booking_id
            /\ \A j \in 1..(i - 1) : appts[j].booking_id # booking_id
    ELSE 0

\* mutant: the cancelled record is deleted from the ledger
CancelBooking_Removing(booking_id) ==
    LET i == FirstWithId(ledger, booking_id)
    IN  /\ Idle
        /\ IF i # 0
           THEN /\ ledger' = SubSeq(ledger, 1, i - 1) \o SubSeq(ledger, i + 1, Len(ledger))
                /\ resp' = [op |-> "cancel_booking", booking_id |-> booking_id,
                            result |-> TRUE, previous_status |-> ledger[i].status]
           ELSE /\ ledger' = ledger
                /\ resp' = [op |-> "cancel_booking", booking_id |-> booking_id,
                            result |-> FALSE, previous_status |-> "none"]
        /\ trail' = "none"
        /\ UNCHANGED <<today, pc, req, checkedAt, chatSessions, appended>>

\* mutant: the status is set but cancelled_at is not stamped
CancelBooking_NoStamp(booking_id) ==
    LET i == FirstWithId(ledger, booking_id)
    IN  /\ Idle
        /\ IF i # 0
           THEN /\ ledger' = [ledger EXCEPT ![i].status = "cancelled"]
                /\ resp' = [op |-> "cancel_booking", booking_id |-> booking_id,
                            result |-> TRUE, previous_status |-> ledger[i].status]
           ELSE /\ ledger' = ledger
                /\ resp' = [op |-> "cancel_booking", booking_id |-> booking_id,
                            result |-> FALSE, previous_status |-> "none"]
        /\ trail' = IF trail = "booked" /\ booking_id = ledger[Len(ledger)].booking_id
                     THEN "booked_cancelled"
                     ELSE "none"
        /\ UNCHANGED <<today, pc, req, checkedAt, chatSessions, appended>>

\* mutant: cancelling a cancelled booking fails and confirms it again
CancelBooking_Toggle(booking_id) ==
    LET i == FirstWithId(ledger, booking_id)
    IN  /\ Idle
        /\ IF i # 0
           THEN /\ ledger' = IF ledger[i].status = "cancelled"
                             THEN [ledger EXCEPT ![i].status = "confirmed"]
                             ELSE [ledger EXCEPT ![i].status = "cancelled",
                                                 ![i].cancelled_at = TRUE]
                /\ resp' = [op |-> "cancel_booking", booking_id |-> booking_id,
                            result |-> ledger[i].status = "confirmed",
                            previous_status |-> ledger[i].status]
           ELSE /\ ledger' = ledger
                /\ resp' = [op |-> "cancel_booking", booking_id |-> booking_id,
                            result |-> FALSE, previous_status |-> "none"]
        /\ trail' = IF trail = "booked" /\ booking_id = ledger[Len(ledger)].booking_id
                     THEN "booked_cancelled"
                     ELSE "none"
        /\ UNCHANGED <<today, pc, req, checkedAt, chatSessions, appended>>

\* cancel_booking; the answer also notes the status the record had
CancelBooking(booking_id) ==
    LET i == FirstWithId(ledger, booking_id)
    IN  /\ Idle
        /\ IF i # 0
           THEN /\ ledger' = [ledger EXCEPT ![i].status = "cancelled",
                                             ![i].cancelled_at = TRUE]
                /\ resp' = [op |-> "cancel_booking", booking_id |-> booking_id,
                            result |-> TRUE, previous_status |-> ledger[i].status]
           ELSE /\ ledger' = ledger
                /\ resp' = [op |-> "cancel_booking", booking_id |-> booking_id,
                            result |-> FALSE, previous_status |-> "none"]
        /\ trail' = IF trail = "booked" /\ booking_id = ledger[Len(ledger)].booking_id
                     THEN "booked_cancelled"
                     ELSE "none"
        /\ UNCHANGED <<today, pc, req, checkedAt, chatSessions, appended>>

\* ------------------------------------------------------ get_booking_by_id
\* the first record with that id, or found = FALSE for None
GetBookingByIdResult(appts, booking_id) ==
    LET i == FirstWithId(appts, booking_id)
    IN  IF i # 0
        THEN [op |-> "get_booking_by_id", booking_id |-> booking_id,
              found |-> TRUE, booking |-> appts[i]]
        ELSE [op |-> "get_booking_by_id", booking_id |-> booking_id,
              found |-> FALSE]

GetBookingById(booking_id) ==
    /\ Idle
    /\ resp' = GetBookingByIdResult(ledger, booking_id)
    /\ UNCHANGED <<ledger, today, pc, req, checkedAt, trail, chatSessions, appended>>

\* ------------------------------------------------------------- the clock
\* midnight passes: dt_date.today() returns the next day from now on
AdvanceDay ==
    /\ Idle
    /\ today < MaxToday
    /\ today' = today + 1
    /\ trail' = "none"
    /\ UNCHANGED <<ledger, resp, pc, req, checkedAt, chatSessions, appended>>

\* the handler returns: the response (or the HTTP error) goes to the caller
Deliver ==
    /\ ~Idle
    /\ resp' = [op |-> "none"]
    /\ UNCHANGED <<ledger, today, pc, req, checkedAt, trail, chatSessions, appended>>

\* ------------------------------------------- book_appointment on threads
\* lines 205-240 on thread t: the checks, against the ledger as it is now
CheckBooking(t, booking_request) ==
    LET err == BookingError(ledger, today, booking_request)
    IN  /\ Idle
        /\ pc[t] = "idle"
        /\ IF err # "none"
           THEN /\ resp' = BookingResponse(booking_request, err, 0)
                /\ UNCHANGED <<pc, req>>
           ELSE /\ Len(ledger) + Cardinality({ u \in Threads : pc[u] = "checked" })
                       < MaxAppts
                /\ pc' = [pc EXCEPT ![t] = "checked"]
                /\ req' = [req EXCEPT ![t] =
                              [request |-> booking_request, seen |-> Len(ledger)]]
                /\ UNCHANGED resp
        /\ UNCHANGED <<ledger, today, checkedAt, trail, chatSessions, appended>>

\* lines 242-293 on thread t: build the record and append it
AppendBooking(t, booking_id) ==
    /\ Idle
    /\ pc[t] = "checked"
    /\ ledger' = Append(ledger, Appointment(req[t].request, booking_id))
    /\ checkedAt' = Append(checkedAt, req[t].seen)
    /\ resp' = BookingResponse(req[t].request, "confirmed", booking_id)
    /\ pc' = [pc EXCEPT ![t] = "idle"]
    /\ req' = [req EXCEPT ![t] = [request |-> NoRequest, seen |-> 0]]
    /\ UNCHANGED <<today, trail, chatSessions, appended>>

\* ================================================= the scheduling agent
\* backend/agent/scheduling_agent.py.  A message is a role and a text; texts
\* are numbered by their place in the session (the k-th message given to
\* _add_to_session carries text k) so that stored messages are
\* distinguishable; text 0 is the empty string of `content or ""`.
MaxToolCalls == 2    \* tool calls one model response may carry
MaxLogged == 3       \* messages all sessions hold when a turn of SpecChat starts
MaxAppended == 23    \* messages one session may be given in SpecWindow
MaxFailures == 1     \* second model calls that may raise in one SpecWindow session

MaxHistory == 20     \* messages _add_to_session keeps

SessionIds == {"s1", "s2"}

Message(role, content) == [role |-> role, content |-> content]

\* the booking the model asks for when it calls the book_appointment tool
ChatBooking ==
    [ date |-> DateStr(2, TRUE), start_time |-> <<9, 0>>,
      appointment_type |-> "consultation", patient |-> PatientInfo("consultation") ]

\* one requested tool call: function.name, whether function.arguments is
\* well-formed JSON, and whether the engine behind the tool raises in this call
\* (the retrieval of search_faq, the arguments of the two scheduling tools)
ToolCalls ==
    { [name |-> n, arguments |-> "well-formed", fails |-> f] :
        n \in {"search_faq", "check_availability", "book_appointment"}, f \in BOOLEAN }
    \cup { [name |-> "unknown_tool", arguments |-> "well-formed", fails |-> FALSE],
           [name |-> "check_availability", arguments |-> "malformed", fails |-> FALSE] }

\* assistant_message.tool_calls: one to MaxToolCalls calls, in request order
ToolCallLists == UNION { [1..len -> ToolCalls] : len \in 1..MaxToolCalls }

\* what the two model calls of one turn do: the first raises, answers with
\* text, or answers with tool calls; the second raises or answers with text
LlmScripts ==
    { [first |-> f, tool_calls |-> << >>, second |-> "unused"] : f \in {"raises", "text"} }
    \cup { [first |-> "tool_calls", tool_calls |-> l, second |-> sec] :
             l \in ToolCallLists, sec \in {"raises", "text"} }

\* the scripts tried on long histories: one availability lookup per tool turn
WindowScripts ==
    { sc \in LlmScripts :
        sc.tool_calls \in { << >>, << [name |-> "check_availability",
                                      arguments |-> "well-formed", fails |-> FALSE] >> } }

\* _get_session_history: the stored list, created empty when missing
GetSessionHistory(ss, session_id) ==
    [ x \in (DOMAIN ss) \cup {session_id} |-> IF x \in DOMAIN ss THEN ss[x] ELSE << >> ]

\* what a reader of the history sees, whether or not the key exists
History(ss, session_id) == IF session_id \in DOMAIN ss THEN ss[session_id] ELSE << >>

\* mutant: once the list is full the new message is dropped, not the oldest
AddToSession_KeepOldest(ss, session_id, message) ==
    LET grown == Append(History(ss, session_id), message)
        kept == IF Len(grown) > MaxHistory
                THEN SubSeq(grown, 1, MaxHistory)
                ELSE grown
    IN  [ x \in (DOMAIN ss) \cup {session_id} |-> IF x = session_id THEN kept ELSE ss[x] ]

\* _add_to_session
AddToSession(ss, session_id, message) ==
    LET grown == Append(History(ss, session_id), message)
        kept == IF Len(grown) > MaxHistory
                THEN SubSeq(grown, Len(grown) - MaxHistory + 1, Len(grown))
                ELSE grown
    IN  [ x \in (DOMAIN ss) \cup {session_id} |-> IF x = session_id THEN kept ELSE ss[x] ]

\* mutant: on the tool path the placeholder is not stored
AddAllToSession_NoPlaceholder(ss, session_id, messages, k) ==
    LET ms == IF Len(messages) = 3 THEN Tail(messages) ELSE messages
    IN  IF Len(ms) = 0 THEN ss
        ELSE IF Len(ms) = 1 THEN AddToSession(ss, session_id, ms[1])
        ELSE AddToSession(AddToSession(ss, session_id, ms[1]), session_id, ms[2])

\* the calls of _add_to_session one turn makes, from the k-th on
RECURSIVE AddAllToSession(_, _, _, _)
AddAllToSession(ss, session_id, messages, k) ==
    IF k > Len(messages) THEN ss
    ELSE AddAllToSession(AddToSession(ss, session_id, messages[k]),
                         session_id, messages, k + 1)

ToolResult(tool_call, is_error) == [name |-> tool_call.name, error |-> is_error]

\* _execute_tool on parsed arguments: the payload, the ledger afterwards, and
\* whether an exception left the function
ExecuteTool(tool_call, appts, td, booking_id) ==
    CASE tool_call.name = "search_faq" ->
            [ raised |-> tool_call.fails, appts |-> appts,
              payload |-> ToolResult(tool_call, FALSE) ]
      [] tool_call.name = "check_availability" ->
            [ raised |-> FALSE, appts |-> appts,
              payload |-> ToolResult(tool_call, tool_call.fails) ]
      [] tool_call.name = "book_appointment" ->
            IF tool_call.fails \/ BookingError(appts, td, ChatBooking) # "none"
            THEN [ raised |-> FALSE, appts |-> appts,
                   payload |-> ToolResult(tool_call, TRUE) ]
            ELSE [ raised |-> FALSE,
                   appts |-> Append(appts, Appointment(ChatBooking, booking_id)),
                   payload |-> ToolResult(tool_call, FALSE) ]
      [] OTHER ->
            [ raised |-> FALSE, appts |-> appts,
              payload |-> ToolResult(tool_call, TRUE) ]

\* the loop of lines 116-128 from call k on: json.loads, then _execute_tool
RECURSIVE RunTools(_, _, _, _, _)
RunTools(tool_calls, k, appts, td, booking_id) ==
    IF k > Len(tool_calls)
    THEN [ raised |-> FALSE, tool_results |-> << >>, appts |-> appts ]
    ELSE IF tool_calls[k].arguments = "malformed"
    THEN [ raised |-> TRUE, tool_results |-> << >>, appts |-> appts ]
    ELSE LET done == ExecuteTool(tool_calls[k], appts, td, booking_id)
         IN  IF done.raised
             THEN [ raised |-> TRUE, tool_results |-> << >>, appts |-> done.appts ]
             ELSE LET rest == RunTools(tool_calls, k + 1, done.appts, td, booking_id)
                  IN  [ raised |-> rest.raised,
                        tool_results |-> << done.payload >> \o rest.tool_results,
                        appts |-> rest.appts ]

\* the number the apology of line 187 tells the user to call
ClinicPhone == "+91-731-555-0100"

\* mutant: an exception raised while the tools run leaves chat()
ErrorResponse_Propagating(stored, model_calls, raised, tool_results, appts) ==
    [ stored |-> stored,
      outcome |-> IF raised = "tool" THEN "exception" ELSE "apology",
      response |-> 0,
      phone |-> IF raised = "tool" THEN "none" ELSE ClinicPhone,
      model_calls |-> model_calls, raised |-> raised,
      tool_results |-> tool_results, appts |-> appts ]

\* the except branch of chat(), lines 184-190: whatever was raised in the try
\* block, the fixed apology is returned; what was stored and booked stays
ErrorResponse(stored, model_calls, raised, tool_results, appts) ==
    [ stored |-> stored, outcome |-> "apology", response |-> 0,
      phone |-> ClinicPhone,
      model_calls |-> model_calls, raised |-> raised,
      tool_results |-> tool_results, appts |-> appts ]

\* one run of chat() against history length n: the messages it hands to
\* _add_to_session in order, how it ends, the model calls it makes, where an
\* exception was raised, and the ledger the tools leave
ChatTurn(n, appts, td, llm, booking_id) ==
    IF llm.first = "raises"
    THEN ErrorResponse(<< >>, 1, "first", << >>, appts)
    ELSE IF llm.first = "text"
    THEN [ stored |-> << Message("user", n + 1), Message("assistant", n + 2) >>,
           outcome |-> "reply", response |-> n + 2, phone |-> "none",
           model_calls |-> 1, raised |-> "none", tool_results |-> << >>,
           appts |-> appts ]
    ELSE LET placeholder == Message("assistant", 0)
             run == RunTools(llm.tool_calls, 1, appts, td, booking_id)
         IN  IF run.raised
             THEN ErrorResponse(<< placeholder >>, 1, "tool",
                                run.tool_results, run.appts)
             ELSE IF llm.second = "raises"
             THEN ErrorResponse(<< placeholder >>, 2, "second",
                                run.tool_results, run.appts)
             ELSE [ stored |-> << placeholder, Message("user", n + 2),
                                  Message("assistant", n + 3) >>,
                    outcome |-> "reply", response |-> n + 3, phone |-> "none",
                    model_calls |-> 2, raised |-> "none",
                    tool_results |-> run.tool_results, appts |-> run.appts ]

\* mutant: a turn that ends with the apology undoes what its tools booked
Chat_RollingBack(session_id, llm, booking_id) ==
    LET turn == ChatTurn(Len(appended[session_id]), ledger, today, llm, booking_id)
        kept == IF turn.outcome = "apology" THEN ledger ELSE turn.appts
    IN  /\ Idle
        /\ chatSessions' = AddAllToSession(GetSessionHistory(chatSessions, session_id),
                                       session_id, turn.stored, 1)
        /\ appended' = [appended EXCEPT ![session_id] = @ \o turn.stored]
        /\ ledger' = kept
        /\ checkedAt' = IF Len(kept) > Len(ledger)
                        THEN Append(checkedAt, Len(ledger))
                        ELSE checkedAt
        /\ resp' = [ op |-> "chat", session_id |-> session_id,
                     outcome |-> turn.outcome, response |-> turn.response,
                     phone |-> turn.phone,
                     tool_calls |-> llm.tool_calls,
                     tool_results |-> turn.tool_results,
                     model_calls |-> turn.model_calls, raised |-> turn.raised ]
        /\ trail' = "none"
        /\ UNCHANGED <<today, pc, req>>

\* chat(message, session_id), the two model calls scripted by llm
Chat(session_id, llm, booking_id) ==
    LET turn == ChatTurn(Len(appended[session_id]), ledger, today, llm, booking_id)
    IN  /\ Idle
        /\ chatSessions' = AddAllToSession(GetSessionHistory(chatSessions, session_id),
                                       session_id, turn.stored, 1)
        /\ appended' = [appended EXCEPT ![session_id] = @ \o turn.stored]
        /\ ledger' = turn.appts
        /\ checkedAt' = IF Len(turn.appts) > Len(ledger)
                        THEN Append(checkedAt, Len(ledger))
                        ELSE checkedAt
        /\ resp' = [ op |-> "chat", session_id |-> session_id,
                     outcome |-> turn.outcome, response |-> turn.response,
                     phone |-> turn.phone,
                     tool_calls |-> llm.tool_calls,
                     tool_results |-> turn.tool_results,
                     model_calls |-> turn.model_calls, raised |-> turn.raised ]
        /\ trail' = "none"
        /\ UNCHANGED <<today, pc, req>>

\* mutant: the reset forgets every session
ResetSession_All(session_id) ==
    /\ Idle
    /\ chatSessions' = << >>
    /\ appended' = [appended EXCEPT ![session_id] = << >>]
    /\ resp' = [op |-> "reset_session", session_id |-> session_id]
    /\ trail' = session_id
    /\ UNCHANGED <<ledger, today, pc, req, checkedAt>>

\* reset_session; the trail names the session until the next chat turn
ResetSession(session_id) ==
    /\ Idle
    /\ chatSessions' = [ x \in (DOMAIN chatSessions) \ {session_id} |-> chatSessions[x] ]
    /\ appended' = [appended EXCEPT ![session_id] = << >>]
    /\ resp' = [op |-> "reset_session", session_id |-> session_id]
    /\ trail' = session_id
    /\ UNCHANGED <<ledger, today, pc, req, checkedAt>>

GetSessionInfo(session_id) ==
    LET history == History(chatSessions, session_id)
    IN  /\ Idle
        /\ chatSessions' = GetSessionHistory(chatSessions, session_id)
        /\ resp' = [ op |-> "get_session_info", session_id |-> session_id,
                     message_count |-> Len(history),
                     last_messages |->
                         IF Len(history) > 5
                         THEN SubSeq(history, Len(history) - 4, Len(history))
                         ELSE history ]
        /\ UNCHANGED <<ledger, today, pc, req, checkedAt, trail, appended>>

\* ===================================================== the tool wrappers
\* backend/tools/booking_tool.py and availability_tool.py, with the schemas
\* of backend/models/schemas.py they build.  A phone number is a sequence of
\* characters: "+", a digit (written "9") or a separator (written "-").
MaxPhoneLen == 10    \* characters of the longest phone number tried

PhoneChars == {"+", "9", "-"}

PhoneNumbers == UNION { [1..n -> PhoneChars] : n \in 1..MaxPhoneLen }

\* the two numbers tried where the phone is not the point: 10 and 9 digits
ToolPhones == { [k \in 1..10 |-> "9"], [k \in 1..9 |-> "9"] }

\* Field(pattern=r'^\+?[\d\s\-()]+$'): an optional "+", then digits and
\* separators, at least one
PhonePattern(phone) ==
    LET body == IF phone[1] = "+" THEN Tail(phone) ELSE phone
    IN  /\ Len(body) >= 1
        /\ \A k \in 1..Len(body) : body[k] \in {"9", "-"}

\* validate_phone: TRUE when the value is returned, FALSE when ValueError is raised
ValidatePhone(v) ==
    LET kept(c) == c = "9" \/ c = "+"
        cleaned == SelectSeq(v, kept)
    IN  ~(Len(cleaned) < 10)

\* the keyword arguments of the book_appointment tool that are varied
BookingToolArgs(booking_request, patient_phone) ==
    [ date |-> booking_request.date,
      start_time |-> booking_request.start_time,
      appointment_type |-> booking_request.appointment_type,
      patient_phone |-> patient_phone ]

\* two further requests, each for a slot get_availability offers on Monday:
\* the second follow-up slot (09:25) and the second consultation slot (09:40)
GridRequests ==
    { [ date |-> DateStr(2, TRUE), start_time |-> <<9, 25>>,
        appointment_type |-> "followup", patient |-> PatientInfo("followup") ],
      [ date |-> DateStr(2, TRUE), start_time |-> <<9, 40>>,
        appointment_type |-> "consultation", patient |-> PatientInfo("consultation") ] }

\* the calls tried: every request with the two phones
ToolBookings ==
    { BookingToolArgs(r, p) : r \in BookingRequest \cup GridRequests, p \in ToolPhones }

\* the calls tried with one request and every phone
PhoneBookings == { BookingToolArgs(ChatBooking, p) : p \in PhoneNumbers }

\* mutant: the engine appends the record before it runs its checks
BookAppointmentTool_AppendFirst(args, booking_id) ==
    LET booking_request ==
            [ date |-> args.date, start_time |-> args.start_time,
              appointment_type |-> args.appointment_type,
              patient |-> PatientInfo(args.appointment_type) ]
        err == IF ~(PhonePattern(args.patient_phone) /\ ValidatePhone(args.patient_phone))
               THEN "ValidationError"
               ELSE BookingError(ledger, today, booking_request)
    IN  /\ Idle
        /\ IF err = "ValidationError"
           THEN /\ resp' = [ op |-> "book_appointment_tool", arguments |-> args,
                             success |-> FALSE, error |-> err ]
                /\ UNCHANGED <<ledger, checkedAt>>
           ELSE /\ Len(ledger) < MaxAppts
                /\ ledger' = Append(ledger, Appointment(booking_request, booking_id))
                /\ checkedAt' = Append(checkedAt, Len(ledger))
                /\ resp' = IF err # "none"
                           THEN [ op |-> "book_appointment_tool", arguments |-> args,
                                  success |-> FALSE, error |-> err ]
                           ELSE [ op |-> "book_appointment_tool", arguments |-> args,
                                  success |-> TRUE, booking_id |-> booking_id,
                                  status |-> "confirmed" ]
        /\ UNCHANGED <<today, pc, req, trail, chatSessions, appended>>

\* the book_appointment tool: PatientInfo and BookingRequest are built, then
\* the engine books; every ValueError becomes a payload with success False
BookAppointmentTool(args, booking_id) ==
    LET booking_request ==
            [ date |-> args.date, start_time |-> args.start_time,
              appointment_type |-> args.appointment_type,
              patient |-> PatientInfo(args.appointment_type) ]
        err == IF ~(PhonePattern(args.patient_phone) /\ ValidatePhone(args.patient_phone))
               THEN "ValidationError"
               ELSE BookingError(ledger, today, booking_request)
    IN  /\ Idle
        /\ IF err # "none"
           THEN /\ resp' = [ op |-> "book_appointment_tool", arguments |-> args,
                             success |-> FALSE, error |-> err ]
                /\ UNCHANGED <<ledger, checkedAt>>
           ELSE /\ Len(ledger) < MaxAppts
                /\ ledger' = Append(ledger, Appointment(booking_request, booking_id))
                /\ checkedAt' = Append(checkedAt, Len(ledger))
                /\ resp' = [ op |-> "book_appointment_tool", arguments |-> args,
                             success |-> TRUE, booking_id |-> booking_id,
                             status |-> "confirmed" ]
        /\ UNCHANGED <<today, pc, req, trail, chatSessions, appended>>

\* date strings that name no day of November 2026: "2026-11-00", "2026-11-31",
\* "2026-11-45" and their unpadded spellings
InvalidDateStrings == { DateStr(d, p) : d \in {0, 31, 45}, p \in BOOLEAN }

\* whether datetime.strptime(date_str, "%Y-%m-%d") returns
StrptimeParses(date_str) == date_str.day >= 1 /\ date_str.day <= 30

\* mutant: a string that does not parse is answered like a past date
GetAvailabilityOutcome_EmptyOnInvalid(appts, td, date_str, appointment_type) ==
    IF ~StrptimeParses(date_str)
    THEN [ raised |-> FALSE,
           response |-> AvailabilityResponse(date_str, appointment_type, << >>) ]
    ELSE [ raised |-> FALSE,
           response |-> GetAvailabilityResult(appts, td, date_str, appointment_type) ]

\* get_availability as its caller sees it: the ValueError of line 140 when
\* strptime raises, the response otherwise
GetAvailabilityOutcome(appts, td, date_str, appointment_type) ==
    IF ~StrptimeParses(date_str)
    THEN [ raised |-> TRUE ]
    ELSE [ raised |-> FALSE,
           response |-> GetAvailabilityResult(appts, td, date_str, appointment_type) ]

\* the check_availability tool: the available slots of the response, or the
\* error payload when get_availability raised
CheckAvailabilityTool(date, appointment_type) ==
    LET availability == GetAvailabilityOutcome(ledger, today, date, appointment_type)
    IN  /\ Idle
        /\ resp' =
             IF availability.raised
             THEN [ op |-> "check_availability", date |-> date,
                    raised |-> "ValueError", error |-> TRUE,
                    available_slots |-> << >>, available_count |-> 0 ]
             ELSE LET available_slots ==
                          SelectSeq(availability.response.available_slots,
                                    LAMBDA slot : slot.available)
                  IN  [ op |-> "check_availability", date |-> date,
                        raised |-> "none", error |-> FALSE,
                        total_slots |-> availability.response.total_slots,
                        available_slots |-> available_slots,
                        available_count |-> Len(available_slots) ]
        /\ UNCHANGED <<ledger, today, pc, req, checkedAt, trail, chatSessions, appended>>

\* -------------------------------------------------------- specifications
Init ==
    /\ ledger = << >>
    /\ today = 2
    /\ resp = [op |-> "none"]
    /\ pc = [t \in Threads |-> "idle"]
    /\ req = [t \in Threads |-> [request |-> NoRequest, seen |-> 0]]
    /\ checkedAt = << >>
    /\ trail = "none"
    /\ chatSessions = << >>
    /\ appended = [s \in SessionIds |-> << >>]

Next ==
    \/ \E ds \in DateStrings, ty \in AppointmentType : GetAvailability(ds, ty)
    \/ \E r \in BookingRequest, id \in BookingIds : BookAppointment(r, id)
    \/ \E id \in BookingIds : CancelBooking(id)
    \/ \E id \in BookingIds : GetBookingById(id)
    \/ AdvanceDay
    \/ Deliver

Spec == Init /\ [][Next]_vars

NextConc ==
    \/ \E t \in Threads, r \in BookingRequest : CheckBooking(t, r)
    \/ \E t \in Threads, id \in BookingIds : AppendBooking(t, id)
    \/ \E id \in BookingIds : CancelBooking(id)
    \/ Deliver

SpecConc == Init /\ [][NextConc]_vars

\* messages every session was given since its last reset
TotalLogged == Len(appended["s1"]) + Len(appended["s2"])

\* chat turns, resets and session queries on short histories
NextChat ==
    \/ /\ Idle
       /\ TotalLogged < MaxLogged
       /\ \E s \in SessionIds, llm \in LlmScripts : Chat(s, llm, 1)
    \/ \E s \in SessionIds : ResetSession(s)
    \/ \E s \in SessionIds : GetSessionInfo(s)
    \/ Deliver

SpecChat == Init /\ [][NextChat]_vars

\* placeholders of turns whose second model call raised
Orphans(log) ==
    Cardinality({ k \in 1..Len(log) :
        /\ log[k].content = 0
        /\ (k = Len(log) \/ log[k + 1].role # "user") })

\* one session fed until its history overflows
NextWindow ==
    \/ /\ Idle
       /\ Len(appended["s1"]) + 3 <= MaxAppended
       /\ \E llm \in WindowScripts :
             /\ llm.second = "raises" => Orphans(appended["s1"]) < MaxFailures
             /\ Chat("s1", llm, 1)
    \/ ResetSession("s1")
    \/ Deliver

SpecWindow == Init /\ [][NextWindow]_vars

\* the two tools called directly, every request with a good and a bad phone
NextTools ==
    \/ /\ Idle
       /\ \E args \in ToolBookings, id \in BookingIds : BookAppointmentTool(args, id)
    \/ /\ Idle
       /\ \E ds \in DateStrings \cup InvalidDateStrings, ty \in AppointmentType :
             CheckAvailabilityTool(ds, ty)
    \/ Deliver

SpecTools == Init /\ [][NextTools]_vars

\* one booking asked for with every phone number
NextPhone ==
    \/ /\ Idle
       /\ \E args \in PhoneBookings : BookAppointmentTool(args, 1)
    \/ Deliver

SpecPhone == Init /\ [][NextPhone]_vars

\* ================================================================ claims
\* vocabulary of the claims: calendar dates and minutes since midnight
Intersects(a1, a2, b1, b2) == a1 < b2 /\ b1 < a2

SameDate(ds1, ds2) == ParseDate(ds1) = ParseDate(ds2)

ApptStart(a) == TimeToMinutes(a.start_time)

ApptEnd(a) == TimeToMinutes(a.end_time)

ReqStart(r) == TimeToMinutes(r.start_time)

ReqEnd(r) == ReqStart(r) + GetAppointmentDuration(r.appointment_type)

ConfirmedOn(appts, ds) ==
    { i \in 1..Len(appts) : appts[i].status = "confirmed" /\ SameDate(appts[i].date, ds) }

\* the request's interval intersects a confirmed appointment of its date
HitsConfirmed(appts, r) ==
    \E i \in ConfirmedOn(appts, r.date) :
        Intersects(ReqStart(r), ReqEnd(r), ApptStart(appts[i]), ApptEnd(appts[i]))

\* the calendar date is a holiday, a blocked date, or its weekday has no session
ClosedDate(ds) ==
    \/ \E h \in schedule.holidays : SameDate(h, ds)
    \/ \E b \in schedule.blocked_dates : SameDate(b.date, ds)
    \/ Len(schedule.working_hours[GetDayName(ds)]) = 0

WithinSomeSession(ds, from, to) ==
    LET sessions == schedule.working_hours[GetDayName(ds)]
    IN  \E k \in 1..Len(sessions) :
            TimeToMinutes(sessions[k].start) <= from /\ to <= TimeToMinutes(sessions[k].end)

\* a step in which one sequential book_appointment call runs
BookStep == Idle /\ resp'.op = "book_appointment"

Overlapping(appts, i, j) ==
    /\ appts[i].status = "confirmed" /\ appts[j].status = "confirmed"
    /\ SameDate(appts[i].date, appts[j].date)
    /\ Intersects(ApptStart(appts[i]), ApptEnd(appts[i]),
                  ApptStart(appts[j]), ApptEnd(appts[j]))

\* C1: from an empty ledger, after any sequence of sequential book_appointment
\* and cancel_booking calls, no two confirmed appointments of the same date
\* have intersecting intervals [start_time, end_time).
C1_NoOverlappingConfirmed ==
    \A i, j \in 1..Len(ledger) : i < j => ~Overlapping(ledger, i, j)

\* two confirmed appointments share a date
C1_Witness ==
    \E i, j \in 1..Len(ledger) :
        /\ i < j
        /\ ledger[i].status = "confirmed" /\ ledger[j].status = "confirmed"
        /\ SameDate(ledger[i].date, ledger[j].date)

\* C2 as stated: a request that intersects a confirmed appointment of its date
\* always fails with the slot-unavailable error and adds no record.
C2_AlwaysSlotUnavailable ==
    [][ (BookStep /\ HitsConfirmed(ledger, resp'.request))
        => (resp'.result = "SlotUnavailableError" /\ ledger' = ledger) ]_vars

\* C2 amended: such a request always fails and adds no record; the error is the
\* slot-unavailable error unless the date is by then before today, when it is
\* the past-date error.
C2_OverlapRejected ==
    [][ (BookStep /\ HitsConfirmed(ledger, resp'.request))
        => /\ ledger' = ledger
           /\ resp'.result = IF ParseDate(resp'.request.date) < today
                             THEN "PastDateError" ELSE "SlotUnavailableError" ]_vars

\* a partial overlap was refused as unavailable
C2_Witness ==
    /\ resp.op = "book_appointment"
    /\ resp.result = "SlotUnavailableError"
    /\ \E i \in ConfirmedOn(ledger, resp.request.date) :
          /\ ApptStart(ledger[i]) < ReqStart(resp.request)
          /\ ReqStart(resp.request) < ApptEnd(ledger[i])
          /\ ApptEnd(ledger[i]) < ReqEnd(resp.request)

FirstFailure(appts, td, r) ==
    IF ParseDate(r.date) < td THEN "PastDateError"
    ELSE IF ClosedDate(r.date) THEN "ClosedDayError"
    ELSE IF HitsConfirmed(appts, r) THEN "SlotUnavailableError"
    ELSE IF ~WithinSomeSession(r.date, ReqStart(r), ReqEnd(r)) THEN "OutsideHoursError"
    ELSE "confirmed"

\* C4: book_appointment checks past date, closed day, slot unavailable, outside
\* working hours in that order, and the error is that of the first failing check.
C4_FirstFailingCheckWins ==
    [][ BookStep => resp'.result = FirstFailure(ledger, today, resp'.request) ]_vars

\* a request both overlapping and outside every session got the slot error
C4_Witness ==
    /\ resp.op = "book_appointment"
    /\ resp.result = "SlotUnavailableError"
    /\ HitsConfirmed(ledger, resp.request)
    /\ ~WithinSomeSession(resp.request.date, ReqStart(resp.request), ReqEnd(resp.request))

\* C5: a request for a date before today fails with the past-date error and
\* leaves the ledger unchanged, whatever else holds of it.
C5_PastDateRejected ==
    [][ (BookStep /\ ParseDate(resp'.request.date) < today)
        => (resp'.result = "PastDateError" /\ ledger' = ledger) ]_vars

\* a past date that is a working day with a confirmed appointment was refused
C5_Witness ==
    /\ resp.op = "book_appointment"
    /\ resp.result = "PastDateError"
    /\ ~ClosedDate(resp.request.date)
    /\ ConfirmedOn(ledger, resp.request.date) # {}

\* C6: get_availability for a date before today returns no slot, total_slots 0
\* and available_count 0.
C6_PastDateNoSlots ==
    (resp.op = "get_availability" /\ ParseDate(resp.date) < today)
    => /\ resp.available_slots = << >>
       /\ resp.total_slots = 0
       /\ resp.available_count = 0

\* a past working day holding appointments was queried
C6_Witness ==
    /\ resp.op = "get_availability"
    /\ ParseDate(resp.date) < today
    /\ ~ClosedDate(resp.date)
    /\ \E i \in 1..Len(ledger) : SameDate(ledger[i].date, resp.date)

\* C7 (availability half): get_availability returns zero slots for a date that
\* is a holiday, a blocked date, or falls on a weekday without sessions.
C7_ClosedDateNoSlots ==
    (resp.op = "get_availability" /\ ClosedDate(resp.date)) => resp.total_slots = 0

\* C7 (booking half): book_appointment on such a date raises the closed-day error.
C7_ClosedDateBookingError ==
    (resp.op = "book_appointment" /\ ClosedDate(resp.request.date))
    => resp.result = "ClosedDayError"

\* C8: every record in the ledger has end_time = start_time + duration of its
\* type, in minutes, cancelled records included.
C8_EndIsStartPlusDuration ==
    \A i \in 1..Len(ledger) :
        ApptEnd(ledger[i])
            = ApptStart(ledger[i]) + GetAppointmentDuration(ledger[i].appointment_type)

\* a cancelled record and a record booked with the start time "08:75"
C8_Witness ==
    /\ \E i \in 1..Len(ledger) : ledger[i].status = "cancelled"
    /\ \E i \in 1..Len(ledger) : ledger[i].start_time = <<8, 75>>

\* C9: every slot get_availability returns lies within one working session of
\* the date's weekday and is flagged available iff it intersects no confirmed
\* appointment of that date.
C9_SlotFlags ==
    resp.op = "get_availability"
    => \A k \in 1..Len(resp.available_slots) :
          LET slot == resp.available_slots[k]
          IN  /\ WithinSomeSession(resp.date, ApptStart(slot), ApptEnd(slot))
              /\ slot.available
                 <=> ~\E i \in ConfirmedOn(ledger, resp.date) :
                        Intersects(ApptStart(slot), ApptEnd(slot),
                                   ApptStart(ledger[i]), ApptEnd(ledger[i]))

\* number of slots of one session: start + k * step + duration <= end
SlotCount(session, duration, step) ==
    LET span == TimeToMinutes(session.end) - TimeToMinutes(session.start)
    IN  IF span < duration THEN 0 ELSE ((span - duration) \div step) + 1

RECURSIVE SlotsBefore(_, _, _, _)
SlotsBefore(sessions, k, duration, step) ==
    IF k <= 1 THEN 0
    ELSE SlotsBefore(sessions, k - 1, duration, step)
         + SlotCount(sessions[k - 1], duration, step)

\* C10: the slots of a date are, session after session, those starting at
\* session start + n * (duration + buffer) for every n with that start plus the
\* duration <= session end, each of length exactly the duration.
C10_SlotGrid ==
    (resp.op = "get_availability" /\ resp.available_slots # << >>)
    => LET slots == resp.available_slots
           sessions == schedule.working_hours[GetDayName(resp.date)]
           duration == GetAppointmentDuration(resp.appointment_type)
           step == duration + schedule.buffer_minutes
       IN  /\ Len(slots) = SlotsBefore(sessions, Len(sessions) + 1, duration, step)
           /\ \A k \in 1..Len(sessions) :
                \A n \in 1..SlotCount(sessions[k], duration, step) :
                   LET slot == slots[SlotsBefore(sessions, k, duration, step) + n]
                       from == TimeToMinutes(sessions[k].start) + (n - 1) * step
                   IN  /\ slot.start_time = MinutesToTime(from)
                       /\ slot.end_time = MinutesToTime(from + duration)
                       /\ ApptEnd(slot) - ApptStart(slot) = duration

\* Monday, consultation: 09:00-09:30, 09:40-10:10, 10:20-10:50 come first
C10_Witness ==
    /\ resp.op = "get_availability"
    /\ resp.appointment_type = "consultation"
    /\ GetDayName(resp.date) = "monday"
    /\ Len(resp.available_slots) >= 3
    /\ resp.available_slots[1].start_time = <<9, 0>>
    /\ resp.available_slots[1].end_time = <<9, 30>>
    /\ resp.available_slots[2].start_time = <<9, 40>>
    /\ resp.available_slots[2].end_time = <<10, 10>>
    /\ resp.available_slots[3].start_time = <<10, 20>>
    /\ resp.available_slots[3].end_time = <<10, 50>>

\* ------------------------------------------------------------------ C11
\* the record the last successful book_appointment appended
LastBooked == ledger[Len(ledger)]

\* the listed slot that spans exactly the interval of appointment a, if any
ListedAs(slots, a) ==
    { k \in 1..Len(slots) :
        /\ TimeToMinutes(slots[k].start_time) = ApptStart(a)
        /\ TimeToMinutes(slots[k].end_time) = ApptEnd(a) }

\* a get_availability call answered right after a successful booking, for the
\* calendar date and the visit type of that booking
QueryAfterBooking ==
    /\ resp.op = "get_availability"
    /\ trail = "booked"
    /\ SameDate(resp.date, LastBooked.date)
    /\ resp.appointment_type = LastBooked.appointment_type

\* appointment a occupies one of the slots its date offers for its visit type
\* (book_appointment also accepts start times between the slots)
IsOfferedSlot(a) ==
    ListedAs(GetAvailabilityResult(<< >>, ParseDate(a.date), a.date,
                                   a.appointment_type).available_slots, a) # {}

\* C11: a get_availability that immediately follows a successful
\* book_appointment of a slot, for the same date, lists the booked slot
\* [start_time, start_time + duration) with available = FALSE.
C11_BookedSlotShownTaken ==
    (QueryAfterBooking /\ IsOfferedSlot(LastBooked)) =>
        \E k \in ListedAs(resp.available_slots, LastBooked) :
            ~resp.available_slots[k].available

\* ------------------------------------------------------------------ C12
\* a get_availability call answered after a successful booking and then
\* cancel_booking with the id that booking returned, for the date and the
\* visit type of that booking
QueryAfterBookingCancelled ==
    /\ resp.op = "get_availability"
    /\ trail = "booked_cancelled"
    /\ SameDate(resp.date, LastBooked.date)
    /\ resp.appointment_type = LastBooked.appointment_type

\* C12: after a successful book_appointment of a slot and cancel_booking with
\* the booking_id it returned, get_availability for the same date lists that
\* slot with available = TRUE again, whatever the ledger held before.
C12_CancelledSlotShownFree ==
    (QueryAfterBookingCancelled /\ IsOfferedSlot(LastBooked)) =>
        \E k \in ListedAs(resp.available_slots, LastBooked) :
            resp.available_slots[k].available

\* ------------------------------------------------------------------ C13
\* C13: every successful book_appointment answers with status "confirmed",
\* and get_booking_by_id called right after it with the returned booking_id
\* returns the record just created, whose status is "confirmed".
C13_LookupReturnsNewRecord ==
    /\ (resp.op = "book_appointment" /\ trail = "booked") =>
            resp.result = "confirmed"
    /\ (/\ resp.op = "get_booking_by_id"
        /\ trail = "booked"
        /\ resp.booking_id = LastBooked.booking_id) =>
            /\ resp.found
            /\ resp.booking = LastBooked
            /\ resp.booking.status = "confirmed"

\* ------------------------------------------------------------------ C14
CancelStep == Idle /\ resp'.op = "cancel_booking"

\* the records that carry the id
WithId(appts, booking_id) ==
    { i \in 1..Len(appts) : appts[i].booking_id = booking_id }

\* C14: cancel_booking(id) returns true and sets the status of the matching
\* appointment (the first one that carries the id) to "cancelled", stamping
\* cancelled_at, when a record with that id exists; otherwise it returns false,
\* raises nothing and changes no appointment.
C14_CancelMarksMatching ==
    [][ CancelStep =>
          LET matching == WithId(ledger, resp'.booking_id)
          IN  IF matching # {}
              THEN LET i == CHOOSE m \in matching : \A n \in matching : m <= n
                   IN  /\ resp'.result = TRUE
                       /\ Len(ledger') = Len(ledger)
                       /\ ledger'[i].status = "cancelled"
                       /\ ledger'[i].cancelled_at
                       /\ \A j \in 1..Len(ledger) : j # i => ledger'[j] = ledger[j]
              ELSE /\ resp'.result = FALSE
                   /\ ledger' = ledger ]_vars

\* a confirmed appointment was cancelled by its id next to one left alone
C14_Witness ==
    /\ resp.op = "cancel_booking"
    /\ resp.result = TRUE
    /\ \E i, j \in 1..Len(ledger) :
          /\ ledger[i].booking_id = resp.booking_id
          /\ ledger[i].status = "cancelled"
          /\ ledger[i].cancelled_at
          /\ ledger[j].booking_id # resp.booking_id
          /\ ledger[j].status = "confirmed"

\* ------------------------------------------------------------------ C15
GetAvailabilityStep == Idle /\ resp'.op = "get_availability"

Booked(a) ==
    [ booking_id |-> a.booking_id, appointment_type |-> a.appointment_type,
      date |-> a.date, start_time |-> a.start_time, end_time |-> a.end_time,
      patient |-> a.patient ]

\* C16: the ledger is append-only: no step removes a record or shortens the
\* ledger; date, start_time, end_time, type and patient of an existing record
\* never change; the only change to an existing record is cancel_booking
\* setting its status to "cancelled" and its cancelled_at.
C16_AppendOnly ==
    [][ /\ Len(ledger') >= Len(ledger)
        /\ \A i \in 1..Len(ledger) :
              /\ Booked(ledger'[i]) = Booked(ledger[i])
              /\ ledger'[i] # ledger[i] =>
                    /\ CancelStep
                    /\ ledger'[i].status = "cancelled"
                    /\ ledger'[i].cancelled_at ]_vars

\* a booking was appended behind a record that had been cancelled before
C16_Witness ==
    /\ resp.op = "book_appointment"
    /\ resp.result = "confirmed"
    /\ Len(ledger) = 2
    /\ ledger[1].status = "cancelled"
    /\ ledger[2].status = "confirmed"
    /\ ledger[1].patient # ledger[2].patient

\* ------------------------------------------------------------------ C17
\* the call is malformed, names no tool, or its engine raises
FailingCall(tool_call) ==
    \/ tool_call.arguments = "malformed"
    \/ tool_call.name = "unknown_tool"
    \/ tool_call.fails

\* every requested call has its result, in request order
AllExecutedInOrder ==
    /\ Len(resp.tool_results) = Len(resp.tool_calls)
    /\ \A k \in 1..Len(resp.tool_calls) :
          resp.tool_results[k].name = resp.tool_calls[k].name

\* C17: in a chat turn that requests several tool calls, a malformed or
\* failing call (malformed argument JSON, an unknown tool name, an exception
\* inside search_faq, check_availability or book_appointment) yields an error
\* payload for that call only: the other calls are still executed in request
\* order and the second model call is still made.
C17_FailingCallIsolated ==
    (/\ resp.op = "chat"
     /\ Len(resp.tool_calls) >= 2
     /\ \E k \in 1..Len(resp.tool_calls) : FailingCall(resp.tool_calls[k])) =>
        /\ AllExecutedInOrder
        /\ \A k \in 1..Len(resp.tool_calls) :
              /\ FailingCall(resp.tool_calls[k]) => resp.tool_results[k].error
              /\ (/\ ~FailingCall(resp.tool_calls[k])
                  /\ resp.tool_calls[k].name # "book_appointment") =>
                     ~resp.tool_results[k].error
        /\ resp.model_calls = 2

\* ------------------------------------------------------------------ C18
\* C18: every chat turn ends after at most two model calls: without tool
\* calls in the first response its text is the final reply and there is no
\* second call; with tool calls, all of them are executed once, in request
\* order, and exactly one more model call is made, whose text is the reply.
C18_AtMostTwoModelCalls ==
    resp.op = "chat" =>
        /\ resp.model_calls <= 2
        /\ (resp.raised # "first" /\ resp.tool_calls = << >>) =>
              /\ resp.model_calls = 1
              /\ resp.outcome = "reply"
        /\ resp.tool_calls # << >> =>
              /\ AllExecutedInOrder
              /\ resp.model_calls = 2
              /\ resp.raised # "second" => resp.outcome = "reply"

\* ------------------------------------------------------------------ C19
\* the last n elements of seq, all of it when it is shorter
LastN(seq, n) ==
    IF Len(seq) > n THEN [ k \in 1..n |-> seq[Len(seq) - n + k] ] ELSE seq

\* C19: after any sequence of chat turns and resets every stored history
\* holds at most 20 messages and is exactly the 20 messages most recently
\* given to the session, in their original order.
C19_SlidingWindow ==
    \A s \in DOMAIN chatSessions :
        /\ Len(chatSessions[s]) <= MaxHistory
        /\ chatSessions[s] = LastN(appended[s], MaxHistory)

\* a session was given more messages than it keeps and lost its two oldest
C19_Witness ==
    /\ "s1" \in DOMAIN chatSessions
    /\ Len(appended["s1"]) = MaxHistory + 2
    /\ Len(chatSessions["s1"]) = MaxHistory
    /\ chatSessions["s1"][1] = appended["s1"][3]
    /\ chatSessions["s1"][1] # appended["s1"][1]

\* ------------------------------------------------------------------ C20
ChatStep == Idle /\ resp'.op = "chat"

\* C20: when the first or the second model call of a chat turn raises, the
\* history of that session after the turn is the history before the turn,
\* and the call that failed was made once.
C20_FailedTurnStoresNothing ==
    [][ (ChatStep /\ resp'.raised \in {"first", "second"}) =>
          /\ History(chatSessions', resp'.session_id)
                = History(chatSessions, resp'.session_id)
          /\ resp'.model_calls = IF resp'.raised = "first" THEN 1 ELSE 2 ]_vars
\* C21: chat() never lets an exception reach its caller: when the first model
\* call, the decoding of the arguments, a tool or the second model call
\* raises, it returns the fixed apology, which carries the clinic phone number.
C21_FailureReturnsApology ==
    (resp.op = "chat" /\ resp.raised # "none")
    => (resp.outcome = "apology" /\ resp.phone = "+91-731-555-0100")

\* the retrieval of search_faq raised after an earlier tool call had run
C21_Witness ==
    /\ resp.op = "chat"
    /\ resp.raised = "tool"
    /\ Len(resp.tool_calls) = 2
    /\ resp.tool_calls[2].name = "search_faq"
    /\ Len(resp.tool_results) = 1

\* a step in which reset_session(s) runs
ResetStep(s) == Idle /\ resp'.op = "reset_session" /\ resp'.session_id = s

\* a step in which get_session_info(s) runs with no chat turn since the reset of s
InfoAfterResetStep(s) ==
    Idle /\ trail = s /\ resp'.op = "get_session_info" /\ resp'.session_id = s

\* C22: get_session_info(s) after reset_session(s) reports message_count 0 and
\* an empty last_messages, whatever turns came before the reset, and the reset
\* leaves the history of every other session as it was.
C22_ResetClearsOnlyOne ==
    [][ \A s \in SessionIds :
          /\ ResetStep(s) =>
                \A x \in SessionIds \ {s} :
                    History(chatSessions', x) = History(chatSessions, x)
          /\ InfoAfterResetStep(s) =>
                (resp'.message_count = 0 /\ resp'.last_messages = << >>) ]_vars

\* s1 was reset and then queried while s2 still holds its messages
C22_Witness ==
    /\ resp.op = "get_session_info"
    /\ resp.session_id = "s1"
    /\ trail = "s1"
    /\ Len(History(chatSessions, "s2")) >= 2

\* digits of a phone number once the separators are stripped
DigitCount(phone) == Cardinality({ k \in 1..Len(phone) : phone[k] = "9" })

\* C23: a patient phone is accepted only if it holds at least 10 digits once
\* the separators are stripped; one with fewer is rejected with a validation
\* error, also when it starts with "+".
C23_PhoneNeedsTenDigits ==
    (resp.op = "book_appointment_tool" /\ DigitCount(resp.arguments.patient_phone) < 10)
    => (~resp.success /\ resp.error = "ValidationError")

\* C24: the buffer is enforced after booked slots too: a confirmed appointment
\* never starts less than buffer_minutes after the end of another confirmed
\* appointment of the same date (here: even when both occupy offered slots).
C24_BufferBetweenBookings ==
    \A i, j \in 1..Len(ledger) :
        ( /\ i # j
          /\ ledger[i].status = "confirmed" /\ ledger[j].status = "confirmed"
          /\ SameDate(ledger[i].date, ledger[j].date)
          /\ IsOfferedSlot(ledger[i]) /\ IsOfferedSlot(ledger[j])
          /\ ApptEnd(ledger[i]) <= ApptStart(ledger[j]) )
        => ApptStart(ledger[j]) - ApptEnd(ledger[i]) >= schedule.buffer_minutes

\* a date string that names a day of the calendar (November has 30 days)
WellFormedDate(ds) == ds.day \in 1..30

\* C25: for a date string that is not a well-formed calendar date
\* get_availability fails with the invalid-date ValueError instead of returning
\* slots, and the check_availability tool turns the failure into an error
\* payload with available_count 0 and no slot.
C25_InvalidDateError ==
    (resp.op = "check_availability" /\ ~WellFormedDate(resp.date))
    => /\ resp.raised = "ValueError"
       /\ resp.error
       /\ resp.available_count = 0
       /\ resp.available_slots = << >>

\* day 45 was asked for while the ledger holds a confirmed appointment
C25_Witness ==
    /\ resp.op = "check_availability"
    /\ resp.date = DateStr(45, TRUE)
    /\ resp.error
    /\ \E i \in 1..Len(ledger) : ledger[i].status = "confirmed"

\* the first record of the ledger that carries the id
EarliestWithId(appts, booking_id) ==
    CHOOSE m \in WithId(appts, booking_id) : \A n \in WithId(appts, booking_id) : m <= n

LookupStep == Idle /\ resp'.op = "get_booking_by_id"

C27_StoredPerTurn ==
    [][ (ChatStep /\ resp'.outcome = "reply") =>
          LET before == History(chatSessions, resp'.session_id)
              after == History(chatSessions', resp'.session_id)
              n == Len(before)
          IN  /\ SubSeq(after, 1, n) = before
              /\ IF resp'.tool_calls = << >>
                 THEN /\ Len(after) = n + 2
                      /\ after[n + 1].role = "user"
                      /\ after[n + 2] = Message("assistant", resp'.response)
                 ELSE /\ Len(after) = n + 3
                      /\ after[n + 1] = Message("assistant", 0)
                      /\ after[n + 2].role = "user"
                      /\ after[n + 3] = Message("assistant", resp'.response) ]_vars

\* a plain turn followed by a tool turn left five messages in the session
C27_Witness ==
    /\ resp.op = "chat"
    /\ resp.outcome = "reply"
    /\ resp.tool_calls # << >>
    /\ LET history == History(chatSessions, resp.session_id)
       IN  /\ Len(history) = 5
           /\ history[1].role = "user" /\ history[2].role = "assistant"
           /\ history[3] = Message("assistant", 0)
           /\ history[4].role = "user" /\ history[5].role = "assistant"

\* a step in which the book_appointment tool runs
ToolBookStep == Idle /\ resp'.op = "book_appointment_tool"

\* C28: when book_appointment fails with any of its errors (past date, closed
\* day, slot unavailable, outside working hours), or the tool wrapper rejects
\* the patient fields and returns success = false, the ledger is exactly what
\* it was: no record added, none modified.
C28_FailedBookingLeavesLedger ==
    [][ (ToolBookStep /\ ~resp'.success) =>
          /\ resp'.error \in { "ValidationError", "PastDateError", "ClosedDayError",
                               "SlotUnavailableError", "OutsideHoursError" }
          /\ ledger' = ledger ]_vars

\* a request outside the working hours failed over a ledger holding a record
C28_Witness ==
    /\ resp.op = "book_appointment_tool"
    /\ ~resp.success
    /\ resp.error = "OutsideHoursError"
    /\ Len(ledger) >= 1

\* C29: the status of an appointment only moves from confirmed to cancelled:
\* no book_appointment or cancel_booking call returns a cancelled record to
\* confirmed, and cancelling a cancelled booking again returns true and leaves
\* it cancelled.
C29_StatusOneWay ==
    [][ /\ Len(ledger') >= Len(ledger)
        /\ \A i \in 1..Len(ledger) :
              ledger'[i].status # ledger[i].status =>
                 (ledger[i].status = "confirmed" /\ ledger'[i].status = "cancelled")
        /\ \A i \in (Len(ledger) + 1)..Len(ledger') : ledger'[i].status = "confirmed"
        /\ (/\ CancelStep
            /\ WithId(ledger, resp'.booking_id) # {}
            /\ ledger[EarliestWithId(ledger, resp'.booking_id)].status = "cancelled")
           => /\ resp'.result = TRUE
              /\ ledger'[EarliestWithId(ledger, resp'.booking_id)].status = "cancelled"
      ]_vars

\* a cancelled booking was cancelled again after another booking was made
C29_Witness ==
    /\ resp.op = "cancel_booking"
    /\ resp.result = TRUE
    /\ resp.previous_status = "cancelled"
    /\ \E i, j \in 1..Len(ledger) :
          /\ i < j
          /\ ledger[i].booking_id = resp.booking_id
          /\ ledger[i].status = "cancelled"
          /\ ledger[j].status = "confirmed"

\* the book_appointment tool calls of the answered turn that booked
BookedByTurn(r) ==
    { k \in 1..Len(r.tool_results) :
        r.tool_calls[k].name = "book_appointment" /\ ~r.tool_results[k].error }

\* C30: what the tools did is not undone when the turn fails afterwards: if a
\* book_appointment tool call succeeded and the second model call then raised,
\* the appointment stays in the ledger, confirmed, and the user receives only
\* the fixed apology.
C30_BookingSurvivesFailedTurn ==
    [][ (ChatStep /\ resp'.raised = "second" /\ BookedByTurn(resp') # {}) =>
          /\ resp'.outcome = "apology"
          /\ Len(ledger') = Len(ledger) + Cardinality(BookedByTurn(resp'))
          /\ SubSeq(ledger', 1, Len(ledger)) = ledger
          /\ \A i \in (Len(ledger) + 1)..Len(ledger') :
                ledger'[i] = Appointment(ChatBooking, 1) ]_vars

\* the apology was returned while the ledger holds the appointment just booked
C30_Witness ==
    /\ resp.op = "chat"
    /\ resp.raised = "second"
    /\ resp.outcome = "apology"
    /\ BookedByTurn(resp) # {}
    /\ ledger = << Appointment(ChatBooking, 1) >>
    /\ ledger[1].status = "confirmed"

====
